---- MODULE Spec2Model ----
(***************************************************************************)
(* Byte-pair encoding: the trainer of cs336_basics/bpe.py and the          *)
(* Tokenizer of cs336_basics/tokenizer.py.                                 *)
(*                                                                         *)
(* A text (Python str) is a sequence of code points, a bytes object a      *)
(* sequence of integers 0..255, a word of the frequency table a sequence   *)
(* of symbol IDs.  A Python dict is kept in insertion order: a sequence of *)
(* <<key, value>> entries with distinct keys.                              *)
(***************************************************************************)
EXTENDS Integers, Sequences, FiniteSets, TLC

(***************************************************************************)
(* Bounds of the model.                                                    *)
(***************************************************************************)
\* the longest corpus given to train_bpe
MaxLen == 4
\* vocab_size is at most 256 + MaxExtra
MaxExtra == 4
\* the longest text given to the Tokenizer, and the longest word given to _encode_bytes
MaxEncLen == 3
\* the longest corpus of the Tokenizer that is trained and then used
MaxCorpusLen == 2
\* the longest merge list of a Tokenizer that is not trained
MaxMerges == 2

\* number of single-byte entries of the initial vocabulary (range(256))
BaseVocabSize == 256

(***************************************************************************)
(* Generic helpers over sequences and sets of integers.                    *)
(***************************************************************************)
SetMin(S) == CHOOSE x \in S : \A y \in S : x <= y

SetMax(S) == CHOOSE x \in S : \A y \in S : x >= y

RECURSIVE SeqsUpTo(_, _)
SeqsUpTo(S, n) ==
  IF n = 0 THEN {<<>>}
  ELSE LET shorter == SeqsUpTo(S, n - 1)
       IN shorter \cup {Append(s, x) : s \in {t \in shorter : Len(t) = n - 1}, x \in S}

\* Python slice s[a:b] on 0-based offsets, clamped to the length of s
Slice(s, a, b) ==
  LET lo == IF a < Len(s) THEN a ELSE Len(s)
      hi == IF b < Len(s) THEN b ELSE Len(s)
  IN IF hi <= lo THEN <<>> ELSE SubSeq(s, lo + 1, hi)

\* s[a:]
SliceFrom(s, a) == Slice(s, a, Len(s))

\* a < b for Python bytes: byte-wise lexicographic, a proper prefix is smaller
BytesLess(a, b) ==
  \E k \in 0..Len(b) - 1 :
     /\ k <= Len(a)
     /\ \A j \in 1..k : a[j] = b[j]
     /\ (k = Len(a) \/ a[k + 1] < b[k + 1])

(***************************************************************************)
(* str.encode("utf-8") and bytes.decode("utf-8", errors="replace").        *)
(***************************************************************************)
Utf8Char(cp) ==
  IF cp < 128 THEN <<cp>>
  ELSE IF cp < 2048 THEN <<192 + (cp \div 64), 128 + (cp % 64)>>
  ELSE IF cp < 65536
    THEN <<224 + (cp \div 4096), 128 + ((cp \div 64) % 64), 128 + (cp % 64)>>
  ELSE <<240 + (cp \div 262144), 128 + ((cp \div 4096) % 64),
         128 + ((cp \div 64) % 64), 128 + (cp % 64)>>

RECURSIVE Utf8Encode(_)
Utf8Encode(s) ==
  IF s = <<>> THEN <<>> ELSE Utf8Char(Head(s)) \o Utf8Encode(Tail(s))

IsCont(b) == b >= 128 /\ b <= 191

\* number of continuation bytes a lead byte asks for (0: not a lead byte)
ContNeeded(b) ==
  IF b >= 194 /\ b <= 223 THEN 1
  ELSE IF b >= 224 /\ b <= 239 THEN 2
  ELSE IF b >= 240 /\ b <= 244 THEN 3
  ELSE 0

SecondOk(b0, b1) ==
  IF b0 = 224 THEN b1 >= 160 /\ b1 <= 191
  ELSE IF b0 = 237 THEN b1 >= 128 /\ b1 <= 159
  ELSE IF b0 = 240 THEN b1 >= 144 /\ b1 <= 191
  ELSE IF b0 = 244 THEN b1 >= 128 /\ b1 <= 143
  ELSE IsCont(b1)

\* one decoding step at 1-based index i: <<code point, next index>>;
\* an ill-formed subsequence decodes to U+FFFD (65533)
DecodeStep(bs, i) ==
  LET b0 == bs[i]
      n == ContNeeded(b0)
  IN IF b0 < 128 THEN <<b0, i + 1>>
     ELSE IF n = 0 THEN <<65533, i + 1>>
     ELSE IF i + 1 > Len(bs) \/ ~SecondOk(b0, bs[i + 1]) THEN <<65533, i + 1>>
     ELSE IF n = 1 THEN <<(b0 - 192) * 64 + (bs[i + 1] - 128), i + 2>>
     ELSE IF i + 2 > Len(bs) \/ ~IsCont(bs[i + 2]) THEN <<65533, i + 2>>
     ELSE IF n = 2
       THEN <<(b0 - 224) * 4096 + (bs[i + 1] - 128) * 64 + (bs[i + 2] - 128), i + 3>>
     ELSE IF i + 3 > Len(bs) \/ ~IsCont(bs[i + 3]) THEN <<65533, i + 3>>
     ELSE <<(b0 - 240) * 262144 + (bs[i + 1] - 128) * 4096
            + (bs[i + 2] - 128) * 64 + (bs[i + 3] - 128), i + 4>>

RECURSIVE Utf8DecodeFrom(_, _)
Utf8DecodeFrom(bs, i) ==
  IF i > Len(bs) THEN <<>>
  ELSE LET st == DecodeStep(bs, i)
       IN <<st[1]>> \o Utf8DecodeFrom(bs, st[2])

Utf8Decode(bs) == Utf8DecodeFrom(bs, 1)

(***************************************************************************)
(* GPT2_SPLIT_PATTERN.  The character classes are given for the code       *)
(* points below 256.                                                       *)
(***************************************************************************)
\* \s
IsSpace(c) == c \in (9..13) \cup {32, 133, 160}

\* \p{L}
IsLetter(c) ==
  c \in (65..90) \cup (97..122) \cup {170, 181, 186}
        \cup (192..214) \cup (216..246) \cup (248..255)

\* \p{N}
IsNumber(c) == c \in (48..57) \cup {178, 179, 185} \cup (188..190)

\* [^\s\p{L}\p{N}]
IsOther(c) == ~IsSpace(c) /\ ~IsLetter(c) /\ ~IsNumber(c)

\* c is of the class named cls: "L" \p{L}, "N" \p{N}, "O" the rest, "S" \s
InClass(c, cls) ==
  CASE cls = "L" -> IsLetter(c)
    [] cls = "N" -> IsNumber(c)
    [] cls = "O" -> IsOther(c)
    [] cls = "S" -> IsSpace(c)

\* 1-based index just past the longest run of the class cls that starts at p
RunEnd(s, p, cls) ==
  LET stop == {i \in p..Len(s) : ~InClass(s[i], cls)}
  IN IF stop = {} THEN Len(s) + 1 ELSE SetMin(stop)

\* index just past the match of the pattern at 1-based index p (p: no match);
\* the alternatives are tried in the order the pattern lists them
WordEnd(s, p) ==
  LET c == s[p]
      has2 == p + 1 <= Len(s)
      has3 == p + 2 <= Len(s)
  IN IF c = 39 /\ has2 /\ s[p + 1] \in {115, 100, 109, 116} THEN p + 2
     ELSE IF c = 39 /\ has3
             /\ <<s[p + 1], s[p + 2]>> \in {<<108, 108>>, <<118, 101>>, <<114, 101>>}
       THEN p + 3
     ELSE IF c = 32 /\ has2 /\ IsLetter(s[p + 1]) THEN RunEnd(s, p + 1, "L")
     ELSE IF IsLetter(c) THEN RunEnd(s, p, "L")
     ELSE IF c = 32 /\ has2 /\ IsNumber(s[p + 1]) THEN RunEnd(s, p + 1, "N")
     ELSE IF IsNumber(c) THEN RunEnd(s, p, "N")
     ELSE IF c = 32 /\ has2 /\ IsOther(s[p + 1]) THEN RunEnd(s, p + 1, "O")
     ELSE IF IsOther(c) THEN RunEnd(s, p, "O")
     ELSE IF IsSpace(c)
       THEN LET e == RunEnd(s, p, "S")
            IN IF e = Len(s) + 1 THEN e       \* \s+(?!\S) at the end of the text
               ELSE IF e - p >= 2 THEN e - 1  \* \s+(?!\S) gives the last one back
               ELSE e                         \* \s+
     ELSE p

\* re.findall(GPT2_SPLIT_PATTERN, s) from 1-based index p on
RECURSIVE FindWordsFrom(_, _)
FindWordsFrom(s, p) ==
  IF p > Len(s) THEN <<>>
  ELSE LET e == WordEnd(s, p)
       IN IF e = p THEN FindWordsFrom(s, p + 1)
          ELSE <<SubSeq(s, p, e - 1)>> \o FindWordsFrom(s, e)

FindWords(s) == FindWordsFrom(s, 1)

(***************************************************************************)
(* The special-token alternation '|'.join(re.escape(t) for t in toks).     *)
(***************************************************************************)
IsPrefixAt(t, s, p) ==
  /\ p + Len(t) - 1 <= Len(s)
  /\ \A j \in 1..Len(t) : s[p + j - 1] = t[j]

\* index in toks of the first alternative that matches at p (0: none)
AltAt(toks, s, p) ==
  LET hit == {k \in 1..Len(toks) : IsPrefixAt(toks[k], s, p)}
  IN IF hit = {} THEN 0 ELSE SetMin(hit)

\* re.finditer(pattern, s): the matches <<start, end>> as 0-based offsets
RECURSIVE MatchesFrom(_, _, _)
MatchesFrom(toks, s, p) ==
  IF p > Len(s) THEN <<>>
  ELSE LET k == AltAt(toks, s, p)
       IN IF k = 0 THEN MatchesFrom(toks, s, p + 1)
          ELSE <<<<p - 1, p - 1 + Len(toks[k])>>>>
               \o MatchesFrom(toks, s, p + Len(toks[k]))

Matches(toks, s) == MatchesFrom(toks, s, 1)

\* re.split(f"({pattern})", s): plain, special, plain, ..., plain
RECURSIVE SplitFrom(_, _, _)
SplitFrom(s, ms, from) ==
  IF ms = <<>> THEN <<SliceFrom(s, from)>>
  ELSE <<Slice(s, from, Head(ms)[1]), Slice(s, Head(ms)[1], Head(ms)[2])>>
       \o SplitFrom(s, Tail(ms), Head(ms)[2])

SplitSpecial(toks, s) == SplitFrom(s, Matches(toks, s), 0)

\* sorted(toks, key=len, reverse=True): stable, longest first
RECURSIVE InsertByLen(_, _)
InsertByLen(sorted, t) ==
  IF sorted = <<>> THEN <<t>>
  ELSE IF Len(Head(sorted)) >= Len(t) THEN <<Head(sorted)>> \o InsertByLen(Tail(sorted), t)
  ELSE <<t>> \o sorted

RECURSIVE SortedSpecial(_)
SortedSpecial(toks) ==
  IF toks = <<>> THEN <<>>
  ELSE InsertByLen(SortedSpecial(SubSeq(toks, 1, Len(toks) - 1)), toks[Len(toks)])

InSeq(x, s) == \E k \in 1..Len(s) : s[k] = x

(***************************************************************************)
(* Python dict / Counter in insertion order.                               *)
(***************************************************************************)
HasKey(d, key) == \E k \in 1..Len(d) : d[k][1] = key

\* counts[key] += n
CounterAdd(counts, key, n) ==
  IF HasKey(counts, key)
  THEN [k \in 1..Len(counts) |->
          IF counts[k][1] = key THEN <<key, counts[k][2] + n>> ELSE counts[k]]
  ELSE Append(counts, <<key, n>>)

\* d[key], for a key of d
Lookup(d, key) == d[CHOOSE k \in 1..Len(d) : d[k][1] = key][2]

\* vocab[key] = val on a dict ID -> bytes kept as a function
DictSet(d, key, val) ==
  [k \in (DOMAIN d) \cup {key} |-> IF k = key THEN val ELSE d[k]]

RECURSIVE SumCounts(_)
SumCounts(counts) ==
  IF counts = <<>> THEN 0 ELSE Head(counts)[2] + SumCounts(Tail(counts))

(***************************************************************************)
(* bpe.py: _pretokenize_and_count                                          *)
(***************************************************************************)
\* for word in words: counts[tuple(word.encode("utf-8"))] += 1
RECURSIVE CountWords(_, _)
CountWords(counts, words) ==
  IF words = <<>> THEN counts
  ELSE CountWords(IF Head(words) = <<>> THEN counts
                  ELSE CounterAdd(counts, Utf8Encode(Head(words)), 1),
                  Tail(words))

\* for seg in segs: skip the empty and the special ones, count the words of the rest
RECURSIVE CountSegs(_, _, _)
CountSegs(counts, segs, special_tokens) ==
  IF segs = <<>> THEN counts
  ELSE CountSegs(IF Head(segs) = <<>> \/ InSeq(Head(segs), special_tokens)
                 THEN counts
                 ELSE CountWords(counts, FindWords(Head(segs))),
                 Tail(segs), special_tokens)

\* the alternation is built from special_tokens in the order given
PretokSegs(text, special_tokens) ==
  IF special_tokens # <<>> THEN SplitSpecial(special_tokens, text) ELSE <<text>>

PretokenizeAndCount(text, special_tokens) ==
  CountSegs(<<>>, PretokSegs(text, special_tokens), special_tokens)

(***************************************************************************)
(* bpe.py: _get_pair_stats                                                 *)
(***************************************************************************)
\* for i in range(len(word) - 1): pair_counts[(word[i], word[i+1])] += freq
RECURSIVE AddPairs(_, _, _, _)
AddPairs(pair_counts, word, freq, i) ==
  IF i >= Len(word) THEN pair_counts
  ELSE AddPairs(CounterAdd(pair_counts, <<word[i], word[i + 1]>>, freq), word, freq, i + 1)

RECURSIVE PairStatsFrom(_, _)
PairStatsFrom(pair_counts, word_counts) ==
  IF word_counts = <<>> THEN pair_counts
  ELSE PairStatsFrom(IF Len(Head(word_counts)[1]) < 2 THEN pair_counts
                     ELSE AddPairs(pair_counts, Head(word_counts)[1], Head(word_counts)[2], 1),
                     Tail(word_counts))

GetPairStats(word_counts) == PairStatsFrom(<<>>, word_counts)

(***************************************************************************)
(* bpe.py: the selection max(pair_counts, key=...) of train_bpe            *)
(***************************************************************************)
\* the key (pair_counts[p], vocab[p[0]], vocab[p[1]]) of an entry of pair_counts
PairKey(e, vocab) == <<e[2], vocab[e[1][1]], vocab[e[1][2]]>>

\* k1 < k2 on Python tuples (int, bytes, bytes)
KeyLess(k1, k2) ==
  \/ k1[1] < k2[1]
  \/ k1[1] = k2[1] /\ BytesLess(k1[2], k2[2])
  \/ k1[1] = k2[1] /\ k1[2] = k2[2] /\ BytesLess(k1[3], k2[3])

\* max(): the first entry, in iteration order, no other entry is greater than
RECURSIVE MaxFrom(_, _, _)
MaxFrom(best, rest, vocab) ==
  IF rest = <<>> THEN best
  ELSE MaxFrom(IF KeyLess(PairKey(best, vocab), PairKey(Head(rest), vocab))
               THEN Head(rest) ELSE best,
               Tail(rest), vocab)

\* a selection that breaks ties on the symbol IDs instead of their contents
RECURSIVE MaxByIdFrom(_, _)
MaxByIdFrom(best, rest) ==
  IF rest = <<>> THEN best
  ELSE LET e == Head(rest)
       IN MaxByIdFrom(IF \/ best[2] < e[2]
                         \/ best[2] = e[2] /\ best[1][1] < e[1][1]
                         \/ best[2] = e[2] /\ best[1][1] = e[1][1] /\ best[1][2] < e[1][2]
                      THEN e ELSE best,
                      Tail(rest))

BestPairById(pair_counts, vocab) == MaxByIdFrom(Head(pair_counts), Tail(pair_counts))[1]

BestPair(pair_counts, vocab) == MaxFrom(Head(pair_counts), Tail(pair_counts), vocab)[1]

(***************************************************************************)
(* bpe.py: _merge_vocab                                                    *)
(***************************************************************************)
\* the while loop over new_word, i a 0-based index: a replacement leaves i
\* where it is, anything else advances it
RECURSIVE MergeWordLoop(_, _, _, _)
MergeWordLoop(new_word, i, pair_to_merge, new_token_id) ==
  IF ~(i < Len(new_word) - 1) THEN new_word
  ELSE IF <<new_word[i + 1], new_word[i + 2]>> = pair_to_merge
    THEN MergeWordLoop(SubSeq(new_word, 1, i) \o <<new_token_id>>
                         \o SubSeq(new_word, i + 3, Len(new_word)),
                       i, pair_to_merge, new_token_id)
  ELSE MergeWordLoop(new_word, i + 1, pair_to_merge, new_token_id)

\* a rewrite that stops after the first occurrence of the pair
RECURSIVE FirstOnlyLoop(_, _, _, _)
FirstOnlyLoop(new_word, i, pair_to_merge, new_token_id) ==
  IF ~(i < Len(new_word) - 1) THEN new_word
  ELSE IF <<new_word[i + 1], new_word[i + 2]>> = pair_to_merge
    THEN SubSeq(new_word, 1, i) \o <<new_token_id>> \o SubSeq(new_word, i + 3, Len(new_word))
  ELSE FirstOnlyLoop(new_word, i + 1, pair_to_merge, new_token_id)

MergeWordFirstOnly(word, pair_to_merge, new_token_id) ==
  FirstOnlyLoop(word, 0, pair_to_merge, new_token_id)

\* the word one entry of word_counts is re-inserted as
MergeWord(word, pair_to_merge, new_token_id) ==
  IF Len(word) < 2 THEN word
  ELSE IF ~InSeq(pair_to_merge[1], word) THEN word
  ELSE MergeWordLoop(word, 0, pair_to_merge, new_token_id)

RECURSIVE MergeVocabFrom(_, _, _, _)
MergeVocabFrom(new_counts, word_counts, pair_to_merge, new_token_id) ==
  IF word_counts = <<>> THEN new_counts
  ELSE MergeVocabFrom(CounterAdd(new_counts,
                                 MergeWord(Head(word_counts)[1], pair_to_merge, new_token_id),
                                 Head(word_counts)[2]),
                      Tail(word_counts), pair_to_merge, new_token_id)

MergeVocab(word_counts, pair_to_merge, new_token_id) ==
  MergeVocabFrom(<<>>, word_counts, pair_to_merge, new_token_id)

(***************************************************************************)
(* bpe.py: train_bpe                                                       *)
(***************************************************************************)
\* {i: bytes([i]) for i in range(256)}
BaseVocab == [b \in 0..BaseVocabSize - 1 |-> <<b>>]

NumMerges(vocab_size, special_tokens) == vocab_size - BaseVocabSize - Len(special_tokens)

\* a loop that takes one turn too many
InRangeInclusive(i, num_merges) == i <= num_merges

\* for i in range(num_merges): the loop takes another turn
InRange(i, num_merges) == i < num_merges

\* a counter that is never advanced
NextFreeIdStuck(next_token_id) == next_token_id

\* next_token_id += 1
NextFreeId(next_token_id) == next_token_id + 1

RECURSIVE AppendInOrder(_, _, _)
AppendInOrder(vocab, next_id, tokens) ==
  IF tokens = <<>> THEN vocab
  ELSE AppendInOrder(DictSet(vocab, next_id, Utf8Encode(Head(tokens))), next_id + 1, Tail(tokens))

\* an append that walks the special tokens longest first, as encode sorts them
AppendSpecialsSorted(vocab, next_id, tokens) ==
  AppendInOrder(vocab, next_id, SortedSpecial(tokens))

\* for token in special_tokens: vocab[next_token_id] = token.encode("utf-8"); next_token_id += 1
AppendSpecials(vocab, next_id, tokens) == AppendInOrder(vocab, next_id, tokens)

(***************************************************************************)
(* tokenizer.py: Tokenizer.__init__.  self is the record of the three      *)
(* attributes vocab, merges, special_tokens; the dicts __init__ derives    *)
(* from them are operators of self.  vocab is iterated in ID order.        *)
(***************************************************************************)
\* key in self.decoder, for decoder = {v: k for k, v in vocab.items()}
InDecoder(self, content) == \E id \in DOMAIN self.vocab : self.vocab[id] = content

\* self.decoder[content]: a later ID overwrites an earlier one of the same
\* content; a missing key (KeyError) is shown as the ID -1
DecoderGet(self, content) ==
  IF InDecoder(self, content)
  THEN SetMax({id \in DOMAIN self.vocab : self.vocab[id] = content})
  ELSE 0 - 1

\* pair in self.merge_map
InMergeMap(self, pair) == InSeq(pair, self.merges)

\* __init__ completes: self.decoder[token_a + token_b] is found for every merge
ConstructOk(self) ==
  \A k \in 1..Len(self.merges) : InDecoder(self, self.merges[k][1] \o self.merges[k][2])

\* segment in self.special_token_ids
InSpecialTokenIds(self, segment) ==
  InSeq(segment, self.special_tokens) /\ InDecoder(self, Utf8Encode(segment))

\* self.special_token_ids[segment]
SpecialTokenId(self, segment) == DecoderGet(self, Utf8Encode(segment))

(***************************************************************************)
(* tokenizer.py: Tokenizer._encode_bytes                                   *)
(***************************************************************************)
\* the index of the first rule of merges equal to pair (0-based)
FirstRuleIndex(merges, pair) == SetMin({k \in 1..Len(merges) : merges[k] = pair}) - 1

\* the scan for i in range(len(parts) - 1), i 0-based; best is
\* <<best_priority, best_pair_index>>, replaced only by a smaller priority
RECURSIVE ScanBest(_, _, _, _)
ScanBest(self, parts, i, best) ==
  IF ~(i < Len(parts) - 1) THEN best
  ELSE LET pair == <<parts[i + 1], parts[i + 2]>>
       IN ScanBest(self, parts, i + 1,
                   IF InMergeMap(self, pair) /\ FirstRuleIndex(self.merges, pair) < best[1]
                   THEN <<FirstRuleIndex(self.merges, pair), i>>
                   ELSE best)

\* a scan that also takes a later position of the same priority
RECURSIVE ScanLast(_, _, _, _)
ScanLast(self, parts, i, best) ==
  IF ~(i < Len(parts) - 1) THEN best
  ELSE LET pair == <<parts[i + 1], parts[i + 2]>>
       IN ScanLast(self, parts, i + 1,
                   IF InMergeMap(self, pair) /\ FirstRuleIndex(self.merges, pair) <= best[1]
                   THEN <<FirstRuleIndex(self.merges, pair), i>>
                   ELSE best)

BestMergeRightmost(self, parts) == ScanLast(self, parts, 0, <<Len(self.merges), 0 - 1>>)

\* <<best_priority, best_pair_index>> of one iteration of the while loop;
\* best_pair_index = -1 stands for best_pair is None
BestMerge(self, parts) == ScanBest(self, parts, 0, <<Len(self.merges), 0 - 1>>)

\* parts[best_pair_index:best_pair_index+2] = [merged_bytes]
ApplyMerge(parts, idx) ==
  SubSeq(parts, 1, idx) \o <<parts[idx + 1] \o parts[idx + 2]>>
    \o SubSeq(parts, idx + 3, Len(parts))

\* the while loop runs on: more than one part, and a pair that is a rule
LoopRuns(self, parts) == Len(parts) > 1 /\ BestMerge(self, parts)[2] >= 0

RECURSIVE MergeLoop(_, _)
MergeLoop(self, parts) ==
  IF LoopRuns(self, parts)
  THEN MergeLoop(self, ApplyMerge(parts, BestMerge(self, parts)[2]))
  ELSE parts

\* [bytes([b]) for b in word_bytes]
ByteParts(word_bytes) == [k \in 1..Len(word_bytes) |-> <<word_bytes[k]>>]

\* [self.decoder[p] for p in parts]
PartIds(self, parts) == [k \in 1..Len(parts) |-> DecoderGet(self, parts[k])]

EncodeBytes(self, word_bytes) ==
  IF Len(word_bytes) = 0 THEN <<>>
  ELSE PartIds(self, MergeLoop(self, ByteParts(word_bytes)))

\* a KeyError was raised while these IDs were produced
Raised(id_seq) == \E k \in 1..Len(id_seq) : id_seq[k] < 0

(***************************************************************************)
(* tokenizer.py: Tokenizer.encode                                          *)
(***************************************************************************)
\* for word in words: if word: the IDs of _encode_bytes(word.encode("utf-8"))
RECURSIVE EncodeWords(_, _)
EncodeWords(self, words) ==
  IF words = <<>> THEN <<>>
  ELSE (IF Head(words) = <<>> THEN <<>> ELSE EncodeBytes(self, Utf8Encode(Head(words))))
       \o EncodeWords(self, Tail(words))

\* the split of text at the special tokens, longest first
EncodeSegments(self, txt) ==
  IF self.special_tokens # <<>>
  THEN SplitSpecial(SortedSpecial(self.special_tokens), txt)
  ELSE <<txt>>

\* a loop body that skips the special segments, as _pretokenize_and_count does
EncodeSegmentSkipSpecial(self, segment) ==
  IF segment = <<>> \/ InSeq(segment, self.special_tokens) THEN <<>>
  ELSE EncodeWords(self, FindWords(segment))

\* what one segment adds to tokens
EncodeSegment(self, segment) ==
  IF InSpecialTokenIds(self, segment) THEN <<SpecialTokenId(self, segment)>>
  ELSE IF segment = <<>> THEN <<>>
  ELSE EncodeWords(self, FindWords(segment))

RECURSIVE EncodeSegs(_, _)
EncodeSegs(self, segments) ==
  IF segments = <<>> THEN <<>>
  ELSE EncodeSegment(self, Head(segments)) \o EncodeSegs(self, Tail(segments))

Encode(self, txt) == EncodeSegs(self, EncodeSegments(self, txt))

(***************************************************************************)
(* tokenizer.py: Tokenizer.decode                                          *)
(***************************************************************************)
\* result_bytes: the contents of the IDs that are in vocab, in order
RECURSIVE ResultBytes(_, _)
ResultBytes(self, id_seq) ==
  IF id_seq = <<>> THEN <<>>
  ELSE (IF Head(id_seq) \in DOMAIN self.vocab THEN self.vocab[Head(id_seq)] ELSE <<>>)
       \o ResultBytes(self, Tail(id_seq))

Decode(self, id_seq) == Utf8Decode(ResultBytes(self, id_seq))

(***************************************************************************)
(* tokenizer.py: Tokenizer.encode_iterable.  A step is one turn of the     *)
(* loop over the chunks: <<the IDs yielded, the buffer left>>.             *)
(***************************************************************************)
\* if before_special: the words before the match are encoded and yielded
YieldBefore(self, out, before_special) ==
  IF before_special # <<>>
  THEN out \o EncodeWords(self, FindWords(before_special))
  ELSE out

\* if special_token in self.special_token_ids: its ID is yielded
YieldSpecial(self, out, special_token) ==
  IF InSpecialTokenIds(self, special_token)
  THEN Append(out, SpecialTokenId(self, special_token))
  ELSE out

\* for match in re.finditer(pattern, buffer): the matches ms are those of the
\* string finditer was called on (orig), their offsets are applied to the
\* buffer as the loop body has cut it so far
RECURSIVE MatchLoop(_, _, _, _, _)
MatchLoop(self, orig, ms, buf, out) ==
  IF ms = <<>> THEN <<out, buf>>
  ELSE LET start == Head(ms)[1]
           end == Head(ms)[2]
       IN MatchLoop(self, orig, Tail(ms), SliceFrom(buf, end),
                    YieldSpecial(self, YieldBefore(self, out, Slice(buf, 0, start)),
                                 Slice(orig, start, end)))

\* words[:-1] are encoded, words[-1] is kept as the buffer
AllButLast(words) == IF words = <<>> THEN <<>> ELSE SubSeq(words, 1, Len(words) - 1)

\* the words of the buffer: all but the last are encoded and yielded, the
\* last is the new buffer; without a word the buffer becomes no_word
WordsStep(self, out, words, no_word) ==
  <<out \o EncodeWords(self, AllButLast(words)),
    IF words # <<>> THEN words[Len(words)] ELSE no_word>>

\* after the loop over the matches: if buffer, its words are processed
AfterMatches(self, after) ==
  IF after[2] # <<>>
  THEN WordsStep(self, after[1], FindWords(after[2]), <<>>)
  ELSE after

\* the body of the loop over the chunks, once buffer += chunk is done
ChunkBody(self, buf) ==
  IF self.special_tokens # <<>>
  THEN AfterMatches(self, MatchLoop(self, buf, Matches(SortedSpecial(self.special_tokens), buf),
                                    buf, <<>>))
  ELSE WordsStep(self, <<>>, FindWords(buf), buf)

ChunkStep(self, buf0, chunk) == ChunkBody(self, buf0 \o chunk)

\* after the last chunk: the words of what the buffer still holds
FlushStep(self, buf) ==
  IF buf # <<>> THEN EncodeWords(self, FindWords(buf)) ELSE <<>>

(***************************************************************************)
(* The inputs.  Corpora, and the texts a trained Tokenizer encodes, are    *)
(* over 'l', U+00E9 (two bytes), ' ' and '<'; the texts that are streamed  *)
(* are over 'l', "'", ' ' and '<'; the special tokens are "<" and "<l",    *)
(* one a prefix of the other.                                              *)
(***************************************************************************)
TrainAlphabet == {108, 233, 32, 60}

StreamAlphabet == {108, 39, 32, 60}

Texts == SeqsUpTo(TrainAlphabet, MaxLen)

SmallCorpora == SeqsUpTo(TrainAlphabet, MaxCorpusLen)

EncTexts == SeqsUpTo(TrainAlphabet, MaxEncLen)

StreamTexts == SeqsUpTo(StreamAlphabet, MaxEncLen)

\* the special-token lists: none, one, both in either order, one given twice
SpecialLists ==
  {<<>>, <<<<60>>>>, <<<<60, 108>>>>, <<<<60>>, <<60, 108>>>>, <<<<60, 108>>, <<60>>>>,
   <<<<60>>, <<60>>>>}

\* the special-token lists given to a Tokenizer
TokenizerSpecialLists == {<<>>, <<<<60>>>>, <<<<60>>, <<60, 108>>>>, <<<<60, 108>>, <<60>>>>}

VocabSizes == BaseVocabSize..(BaseVocabSize + MaxExtra)

\* the contents a further rule of the merge list m can pair: the single
\* bytes of B and the products of the rules of m
RuleSymbols(B, m) == {<<b>> : b \in B} \cup {m[k][1] \o m[k][2] : k \in 1..Len(m)}

\* the merge lists of at most n rules over the bytes B
RECURSIVE MergeLists(_, _)
MergeLists(B, n) ==
  IF n = 0 THEN {<<>>}
  ELSE LET shorter == MergeLists(B, n - 1)
       IN shorter \cup
          UNION {{Append(m, <<x, y>>) : x \in RuleSymbols(B, m), y \in RuleSymbols(B, m)}
                 : m \in {t \in shorter : Len(t) = n - 1}}

\* a vocabulary for a merge list: the 256 bytes, one ID per rule, then one
\* ID per registered special token
RECURSIVE AppendProducts(_, _, _)
AppendProducts(v, next_id, m) ==
  IF m = <<>> THEN v
  ELSE AppendProducts(DictSet(v, next_id, Head(m)[1] \o Head(m)[2]), next_id + 1, Tail(m))

VocabFor(m, registered) ==
  AppendSpecials(AppendProducts(BaseVocab, BaseVocabSize, m), BaseVocabSize + Len(m), registered)

RegisteredLists == {<<>>, <<<<60, 108>>>>, <<<<60>>, <<60, 108>>>>}

VARIABLES
  pc,              \* where the run stands
  text,            \* the content of the corpus file
  vocab_size,
  special_tokens,
  word_counts,
  vocab,
  merges,
  next_token_id,
  i,               \* the iterations of the merge loop started so far
  best_pair,       \* the pair the latest iteration selected and merged
  enc_text,        \* the text given to encode, or fed in chunks to encode_iterable
  rest,            \* the part of enc_text no chunk has brought yet
  buffer,          \* encode_iterable's buffer
  ids,             \* the IDs returned or yielded so far
  decoded,         \* the result of decode
  word_bytes,      \* the argument of _encode_bytes
  parts            \* _encode_bytes' parts

vars == <<pc, text, vocab_size, special_tokens, word_counts, vocab, merges,
          next_token_id, i, best_pair, enc_text, rest, buffer, ids, decoded, word_bytes, parts>>

inputs == <<text, vocab_size, special_tokens>>

trainer == <<word_counts, vocab, merges, next_token_id, i, best_pair>>

tokenizer == <<vocab, merges, special_tokens>>

encoder == <<enc_text, rest, buffer, ids, decoded, word_bytes, parts>>

\* the Tokenizer built from the current vocab, merges and special_tokens
Self == [vocab |-> vocab, merges |-> merges, special_tokens |-> special_tokens]

NoEncoder ==
  /\ enc_text = <<>>
  /\ rest = <<>>
  /\ buffer = <<>>
  /\ ids = <<>>
  /\ decoded = <<>>
  /\ word_bytes = <<>>
  /\ parts = <<>>

NoTrainer ==
  /\ text = <<>>
  /\ vocab_size = 0
  /\ word_counts = <<>>
  /\ next_token_id = 0
  /\ i = 0
  /\ best_pair = <<>>

(***************************************************************************)
(* train_bpe                                                               *)
(***************************************************************************)
Init ==
  /\ pc = "start"
  /\ text \in Texts
  /\ vocab_size \in VocabSizes
  /\ special_tokens \in SpecialLists
  /\ word_counts = <<>>
  /\ vocab = <<>>
  /\ merges = <<>>
  /\ next_token_id = 0
  /\ i = 0
  /\ best_pair = <<>>
  /\ NoEncoder

\* train_bpe up to the merge loop
LoadAndCount ==
  /\ pc = "start"
  /\ word_counts' = PretokenizeAndCount(text, special_tokens)
  /\ vocab' = BaseVocab
  /\ merges' = <<>>
  /\ next_token_id' = BaseVocabSize
  /\ i' = 0
  /\ pc' = "loop"
  /\ UNCHANGED <<inputs, best_pair, encoder>>

\* one iteration of the merge loop
MergeStep ==
  /\ pc = "loop"
  /\ InRange(i, NumMerges(vocab_size, special_tokens))
  /\ LET pair_counts == GetPairStats(word_counts)
     IN /\ pair_counts # <<>>
        /\ best_pair' = BestPair(pair_counts, vocab)
        /\ LET token_byte_a == vocab[best_pair'[1]]
               token_byte_b == vocab[best_pair'[2]]
           IN /\ merges' = Append(merges, <<token_byte_a, token_byte_b>>)
              /\ vocab' = DictSet(vocab, next_token_id, token_byte_a \o token_byte_b)
              /\ word_counts' = MergeVocab(word_counts, best_pair', next_token_id)
  /\ next_token_id' = NextFreeId(next_token_id)
  /\ i' = i + 1
  /\ UNCHANGED <<pc, inputs, encoder>>

\* the loop ends: range(num_merges) is exhausted, or no pair is left (break)
LoopExit ==
  /\ pc = "loop"
  /\ \/ ~InRange(i, NumMerges(vocab_size, special_tokens))
     \/ GetPairStats(word_counts) = <<>>
  /\ pc' = "specials"
  /\ UNCHANGED <<inputs, trainer, encoder>>

\* the special tokens are appended and train_bpe returns (vocab, merges)
AddSpecialTokens ==
  /\ pc = "specials"
  /\ vocab' = AppendSpecials(vocab, next_token_id, special_tokens)
  /\ next_token_id' = next_token_id + Len(special_tokens)
  /\ pc' = "done"
  /\ UNCHANGED <<inputs, word_counts, merges, i, best_pair, encoder>>

Train == LoadAndCount \/ MergeStep \/ LoopExit \/ AddSpecialTokens

Next == Train

Spec == Init /\ [][Next]_vars

(***************************************************************************)
(* Tokenizer(vocab, merges, special_tokens) on the output of train_bpe:    *)
(* encode, then decode                                                     *)
(***************************************************************************)
InitRoundTrip ==
  /\ pc = "start"
  /\ text \in SmallCorpora
  /\ vocab_size = BaseVocabSize + MaxExtra
  /\ special_tokens \in TokenizerSpecialLists
  /\ word_counts = <<>>
  /\ vocab = <<>>
  /\ merges = <<>>
  /\ next_token_id = 0
  /\ i = 0
  /\ best_pair = <<>>
  /\ NoEncoder

EncodeText ==
  /\ pc = "done"
  /\ \E t \in EncTexts :
       /\ enc_text' = t
       /\ ids' = Encode(Self, t)
  /\ pc' = "encoded"
  /\ UNCHANGED <<inputs, trainer, rest, buffer, decoded, word_bytes, parts>>

DecodeIds ==
  /\ pc = "encoded"
  /\ decoded' = Decode(Self, ids)
  /\ pc' = "decoded"
  /\ UNCHANGED <<inputs, trainer, enc_text, rest, buffer, ids, word_bytes, parts>>

NextRoundTrip == Train \/ EncodeText \/ DecodeIds

SpecRoundTrip == InitRoundTrip /\ [][NextRoundTrip]_vars

(***************************************************************************)
(* Tokenizer.encode_iterable, one chunk at a time, on a Tokenizer whose    *)
(* special tokens may or may not be registered in the vocabulary           *)
(***************************************************************************)
InitStream ==
  /\ pc = "stream"
  /\ merges \in {<<>>, <<<<<<39>>, <<108>>>>>>, <<<<<<108>>, <<108>>>>>>}
  /\ special_tokens \in TokenizerSpecialLists
  /\ \E registered \in RegisteredLists : vocab = VocabFor(merges, registered)
  /\ enc_text \in StreamTexts
  /\ rest = enc_text
  /\ buffer = <<>>
  /\ ids = <<>>
  /\ decoded = <<>>
  /\ word_bytes = <<>>
  /\ parts = <<>>
  /\ NoTrainer

\* the iterable brings its next chunk: any non-empty prefix of what is left
FeedChunk ==
  /\ pc = "stream"
  /\ rest # <<>>
  /\ \E k \in 1..Len(rest) :
       \E st \in {ChunkStep(Self, buffer, SubSeq(rest, 1, k))} :
         /\ ids' = ids \o st[1]
         /\ buffer' = st[2]
         /\ rest' = SubSeq(rest, k + 1, Len(rest))
  /\ UNCHANGED <<pc, inputs, trainer, enc_text, decoded, word_bytes, parts>>

\* the iterable is exhausted: the rest of the buffer is encoded
EndOfChunks ==
  /\ pc = "stream"
  /\ rest = <<>>
  /\ ids' = ids \o FlushStep(Self, buffer)
  /\ pc' = "done"
  /\ UNCHANGED <<inputs, trainer, enc_text, rest, buffer, decoded, word_bytes, parts>>

NextStream == FeedChunk \/ EndOfChunks

SpecStream == InitStream /\ [][NextStream]_vars

(***************************************************************************)
(* Tokenizer._encode_bytes on one word, one turn of its while loop at a    *)
(* time                                                                    *)
(***************************************************************************)
InitWord ==
  /\ pc = "word"
  /\ merges \in MergeLists({39, 108}, MaxMerges)
  /\ special_tokens = <<>>
  /\ vocab = VocabFor(merges, <<>>)
  /\ word_bytes \in SeqsUpTo({39, 108}, MaxEncLen)
  /\ enc_text = <<>>
  /\ rest = <<>>
  /\ buffer = <<>>
  /\ ids = <<>>
  /\ decoded = <<>>
  /\ parts = <<>>
  /\ NoTrainer

\* the empty word returns []; any other starts from one part per byte
EncStart ==
  /\ pc = "word"
  /\ IF Len(word_bytes) = 0
     THEN pc' = "done" /\ UNCHANGED parts
     ELSE pc' = "merging" /\ parts' = ByteParts(word_bytes)
  /\ UNCHANGED <<inputs, trainer, enc_text, rest, buffer, ids, decoded, word_bytes>>

\* one turn of the while loop that merges
EncMergeStep ==
  /\ pc = "merging"
  /\ LoopRuns(Self, parts)
  /\ parts' = ApplyMerge(parts, BestMerge(Self, parts)[2])
  /\ UNCHANGED <<pc, inputs, trainer, enc_text, rest, buffer, ids, decoded, word_bytes>>

\* the loop is left and the parts are mapped to their IDs
EncReturn ==
  /\ pc = "merging"
  /\ ~LoopRuns(Self, parts)
  /\ ids' = PartIds(Self, parts)
  /\ pc' = "done"
  /\ UNCHANGED <<inputs, trainer, enc_text, rest, buffer, decoded, word_bytes, parts>>

NextWord == EncStart \/ EncMergeStep \/ EncReturn

\* _encode_bytes is straight-line code: a turn that can be taken is taken
SpecWord == InitWord /\ [][NextWord]_vars /\ WF_vars(NextWord)

(***************************************************************************)
(* The properties                                                          *)
(***************************************************************************)
\* the byte string a sequence of symbol IDs stands for
RECURSIVE Expand(_, _)
Expand(v, word) ==
  IF word = <<>> THEN <<>> ELSE v[Head(word)] \o Expand(v, Tail(word))

\* a merge step of train_bpe has just been taken
MergeTaken == pc = "loop" /\ Len(merges') = Len(merges) + 1

Max0(n) == IF n < 0 THEN 0 ELSE n

\* ---- C1 ----------------------------------------------------------------
\* C1: once the chunks are exhausted, the IDs encode_iterable has yielded
\* are the IDs encode returns for the whole text, however it was split.
C1_StreamingEquivalence ==
  pc = "done" => ids = Encode(Self, enc_text)

\* ---- C2 ----------------------------------------------------------------
\* C2: for the Tokenizer built from what train_bpe returned, decode(encode(text))
\* is the text, every ID encode emits is an ID of the vocabulary, and the
\* contents of these IDs, concatenated, are the UTF-8 bytes of the text.
C2_RoundTrip ==
  pc = "decoded" =>
    /\ decoded = enc_text
    /\ \A k \in 1..Len(ids) : ids[k] \in DOMAIN vocab
    /\ Expand(vocab, ids) = Utf8Encode(enc_text)

\* a text with a two-byte character and a special token was encoded into a
\* merged ID and a special-token ID, and decoded
C2_Witness ==
  /\ pc = "decoded"
  /\ \E k \in 1..Len(enc_text) : enc_text[k] = 233
  /\ \E k \in 1..Len(ids) : ids[k] >= BaseVocabSize /\ ids[k] < BaseVocabSize + Len(merges)
  /\ \E k \in 1..Len(ids) : ids[k] >= BaseVocabSize + Len(merges)

\* ---- C3 ----------------------------------------------------------------
\* the pairs of adjacent symbols of the words of a frequency table
AdjacentPairs(wc) ==
  UNION {{<<wc[k][1][j], wc[k][1][j + 1]>> : j \in 1..Len(wc[k][1]) - 1} : k \in 1..Len(wc)}

Occurrences(word, pair) ==
  Cardinality({j \in 1..Len(word) - 1 : <<word[j], word[j + 1]>> = pair})

\* the aggregate frequency of a pair: each occurrence in a word counts the
\* frequency of the word
RECURSIVE PairFrequency(_, _)
PairFrequency(wc, pair) ==
  IF wc = <<>> THEN 0
  ELSE Head(wc)[2] * Occurrences(Head(wc)[1], pair) + PairFrequency(Tail(wc), pair)

ContentPair(v, pair) == <<v[pair[1]], v[pair[2]]>>

\* (x1, x2) < (y1, y2) on pairs of byte strings
ContentLess(x, y) ==
  BytesLess(x[1], y[1]) \/ (x[1] = y[1] /\ BytesLess(x[2], y[2]))

\* C3: the pair a merge step selects is an adjacent pair of the current
\* frequency table, no pair has a higher aggregate frequency, among the pairs
\* of that frequency none has a greater (first content, second content), and
\* the rule recorded is the contents of the selected pair.
C3_MergeSelection ==
  [][MergeTaken =>
       /\ best_pair' \in AdjacentPairs(word_counts)
       /\ merges'[Len(merges')] = ContentPair(vocab, best_pair')
       /\ \A q \in AdjacentPairs(word_counts) :
            /\ PairFrequency(word_counts, q) <= PairFrequency(word_counts, best_pair')
            /\ PairFrequency(word_counts, q) = PairFrequency(word_counts, best_pair')
                 => ~ContentLess(ContentPair(vocab, best_pair'), ContentPair(vocab, q))]_vars

\* the corpus "lllé": after (l, l) is merged into 256 the pairs (256, l),
\* (l, 0xC3) and (0xC3, 0xA9) tie at frequency 1, and (0xC3, 0xA9), the
\* greatest by content and not by ID, was selected
C3_Witness ==
  /\ pc = "loop"
  /\ text = <<108, 108, 108, 233>>
  /\ Len(merges) = 2
  /\ merges[1] = <<<<108>>, <<108>>>>
  /\ merges[2] = <<<<195>>, <<169>>>>
  /\ best_pair = <<195, 169>>

\* ---- C4 ----------------------------------------------------------------
\* a special token of the Tokenizer that is not a value of the vocabulary
\* occurs in the text
UnregisteredOccurs(self, txt) ==
  LET ms == Matches(SortedSpecial(self.special_tokens), txt)
  IN \E k \in 1..Len(ms) : ~InDecoder(self, Utf8Encode(Slice(txt, ms[k][1], ms[k][2])))

\* C4: encoding a text in which an unregistered special token occurs ends in
\* an error, through encode_iterable and through encode.
C4_UnregisteredSpecialRaises ==
  (pc = "done" /\ UnregisteredOccurs(Self, enc_text))
    => (Raised(ids) /\ Raised(Encode(Self, enc_text)))

\* ---- C5 ----------------------------------------------------------------
\* the segments of the text when the special tokens are matched longest first
LongestFirstSegs(txt, toks) ==
  IF toks # <<>> THEN SplitSpecial(SortedSpecial(toks), txt) ELSE <<txt>>

\* C5: the frequency table train_bpe starts from counts the words of the text
\* with every longest-first match of a special token cut out whole, so no
\* byte of such a match is in a word of the table.
C5_SpecialsCutLongestFirst ==
  (pc = "loop" /\ i = 0) =>
    word_counts = CountSegs(<<>>, LongestFirstSegs(text, special_tokens), special_tokens)

\* ---- C6 ----------------------------------------------------------------
Coherent ==
  /\ \A b \in 0..BaseVocabSize - 1 : b \in DOMAIN vocab /\ vocab[b] = <<b>>
  /\ Len(merges) = next_token_id - BaseVocabSize
  /\ \A k \in 1..Len(merges) :
       /\ BaseVocabSize + k - 1 \in DOMAIN vocab
       /\ vocab[BaseVocabSize + k - 1] = merges[k][1] \o merges[k][2]

Stable ==
  /\ \A id \in DOMAIN vocab : id \in DOMAIN vocab' /\ vocab'[id] = vocab[id]
  /\ Len(merges') >= Len(merges)
  /\ SubSeq(merges', 1, Len(merges)) = merges

\* C6: before and after every iteration of the merge loop the IDs 0..255 map
\* to their single bytes, len(merges) = next_token_id - 256 and vocab[256 + i]
\* is the concatenation of merges[i]; and no step changes the content of an
\* assigned ID or changes, drops or reorders a recorded rule.
C6_VocabMergeCoherence ==
  [](pc \in {"loop", "specials"} => Coherent) /\ [][Stable]_vars

\* two iterations of the merge loop have been taken
C6_Witness == pc = "loop" /\ Len(merges) = 2 /\ next_token_id = BaseVocabSize + 2

\* ---- C7 ----------------------------------------------------------------
\* C7: when train_bpe returns with M merges, the vocabulary is the IDs
\* 0 .. 256 + M + |S| - 1 and the k-th special token is the content of the
\* ID 256 + M + k.
C7_SpecialTokenPlacement ==
  pc = "done" =>
    /\ DOMAIN vocab = 0..(BaseVocabSize + Len(merges) + Len(special_tokens) - 1)
    /\ \A k \in 1..Len(special_tokens) :
         vocab[BaseVocabSize + Len(merges) + k - 1] = Utf8Encode(special_tokens[k])

\* train_bpe returned with two different special tokens, the shorter given
\* first, one of them in the corpus, after a merge loop that stopped early
C7_Witness ==
  /\ pc = "done"
  /\ Len(special_tokens) = 2
  /\ Len(special_tokens[1]) < Len(special_tokens[2])
  /\ Matches(special_tokens, text) # <<>>
  /\ Len(merges) >= 1
  /\ Len(merges) < NumMerges(vocab_size, special_tokens)

\* ---- C8 ----------------------------------------------------------------
\* C8 as claimed: the number of merge rules returned is at most
\* vocab_size - 256 - |special_tokens|.
C8_MergeCountBound ==
  pc = "done" => Len(merges) <= vocab_size - BaseVocabSize - Len(special_tokens)

\* C8 as amended: the number of merge rules is at most
\* max(0, vocab_size - 256 - |special_tokens|), at every point of the run.
C8_MergeCountBoundAmended ==
  Len(merges) <= Max0(vocab_size - BaseVocabSize - Len(special_tokens))

\* train_bpe returned with exactly the number of merges asked for
C8_Witness ==
  /\ pc = "done"
  /\ NumMerges(vocab_size, special_tokens) >= 2
  /\ Len(merges) = NumMerges(vocab_size, special_tokens)

\* ---- C9 ----------------------------------------------------------------
\* a word with every non-overlapping occurrence of the pair, taken from the
\* left, replaced by n
RECURSIVE ReplacePair(_, _, _)
ReplacePair(w, pair, n) ==
  IF Len(w) < 2 THEN w
  ELSE IF <<w[1], w[2]>> = pair THEN <<n>> \o ReplacePair(SubSeq(w, 3, Len(w)), pair, n)
  ELSE <<w[1]>> \o ReplacePair(Tail(w), pair, n)

\* the sum of the counts of the words of wc that are rewritten to target
RECURSIVE RewrittenCount(_, _, _, _)
RewrittenCount(wc, pair, n, target) ==
  IF wc = <<>> THEN 0
  ELSE (IF ReplacePair(Head(wc)[1], pair, n) = target THEN Head(wc)[2] ELSE 0)
       + RewrittenCount(Tail(wc), pair, n, target)

MergeApplied(old, pair, n, new, v) ==
  /\ \A a, b \in 1..Len(new) : new[a][1] = new[b][1] => a = b
  /\ \A k \in 1..Len(old) : HasKey(new, ReplacePair(old[k][1], pair, n))
  /\ \A a \in 1..Len(new) :
       /\ new[a][2] = RewrittenCount(old, pair, n, new[a][1])
       /\ new[a][2] > 0
  /\ \A k \in 1..Len(old) :
       ~InSeq(pair[1], old[k][1]) => HasKey(new, old[k][1])
  /\ SumCounts(new) = SumCounts(old)
  /\ \A k \in 1..Len(old) :
       Expand(v, ReplacePair(old[k][1], pair, n)) = Expand(v, old[k][1])

\* C9: a merge step, whose new symbol is in no word, leaves the table of the
\* words rewritten left to right without overlap, each with the sum of the
\* counts of the words rewritten to it; a word without the first symbol of
\* the pair is kept; the sum of the counts and the bytes of every word are
\* kept.
C9_MergeApplication ==
  [][MergeTaken =>
       /\ \A k \in 1..Len(word_counts) : ~InSeq(next_token_id, word_counts[k][1])
       /\ MergeApplied(word_counts, best_pair', next_token_id, word_counts', vocab')]_vars

\* the corpus "lll": (l, l) was merged into 256 and the word became 256 l
C9_Witness ==
  /\ pc = "loop"
  /\ text = <<108, 108, 108>>
  /\ best_pair = <<108, 108>>
  /\ word_counts = <<<<<<256, 108>>, 1>>>>

\* ---- C10 ---------------------------------------------------------------
\* the 0-based indices of the rules of the merge list that some adjacent pair
\* of parts is equal to
ApplicableRules(ps, m) ==
  {r \in 0..Len(m) - 1 : \E j \in 1..Len(ps) - 1 : <<ps[j], ps[j + 1]>> = m[r + 1]}

\* parts with the leftmost occurrence of the applicable rule of the smallest
\* index replaced by its concatenation
GreedyStep(ps, m) ==
  LET r == SetMin(ApplicableRules(ps, m))
      j == SetMin({x \in 1..Len(ps) - 1 : <<ps[x], ps[x + 1]>> = m[r + 1]})
  IN [k \in 1..Len(ps) - 1 |->
        IF k < j THEN ps[k] ELSE IF k = j THEN ps[j] \o ps[j + 1] ELSE ps[k + 1]]

EncodeStepOk ==
  /\ (pc = "word" /\ pc' = "merging")
       => parts' = [k \in 1..Len(word_bytes) |-> <<word_bytes[k]>>]
  /\ pc = "merging"
       => IF ApplicableRules(parts, merges) # {}
          THEN /\ pc' = "merging"
               /\ parts' = GreedyStep(parts, merges)
               /\ Len(parts') = Len(parts) - 1
          ELSE pc' = "done" /\ parts' = parts

EncodeResultOk ==
  (pc = "done" /\ word_bytes # <<>>) =>
    /\ ApplicableRules(parts, merges) = {}
    /\ Len(ids) = Len(parts)
    /\ \A k \in 1..Len(ids) : ids[k] \in DOMAIN vocab /\ vocab[ids[k]] = parts[k]

\* C10: _encode_bytes starts from one part per byte; while some adjacent pair
\* is a rule it applies the rule of the smallest index at its leftmost
\* position, which shortens parts by one; it leaves the loop exactly when no
\* adjacent pair is a rule; it returns, with one ID of the vocabulary per
\* part, the ID of that part's content.
C10_GreedyEncode ==
  [][EncodeStepOk]_vars /\ []EncodeResultOk /\ <>(pc = "done")

\* "lll" under a merge list that starts with (l, l): the rule held at two
\* positions, the left one was merged
C10_Witness ==
  /\ pc = "done"
  /\ word_bytes = <<108, 108, 108>>
  /\ Len(merges) = 2
  /\ merges[1] = <<<<108>>, <<108>>>>
  /\ parts = <<<<108, 108>>, <<108>>>>
  /\ ids = <<256, 108>>
====
